---- MODULE Spec2Model ----
(***************************************************************************)
(* Model of the camera-control layer of MMTObservatory/indiclient:         *)
(*   indiclient/indicam.py  (CCDCam and its per-model subclasses)          *)
(*   sbigclient/sbigcam.py  (the older SBIG-only CCDCam)                   *)
(*                                                                         *)
(* Time is counted in ticks of 0.1 s, the poll interval of expose          *)
(* (time.sleep(0.1)); the statements between two sleeps take no time.      *)
(* Exposure times are therefore given in ticks: 3600 s = 36000 ticks and   *)
(* the 10 s grace period = 100 ticks.                                      *)
(*                                                                         *)
(* The base class indiclient.indiclient (get_float, set_and_send_float,    *)
(* the receive queues) is not part of the sources; it is modelled as the   *)
(* PropertyBus of the specification: a write is submitted and is either    *)
(* confirmed (a vector is returned) or not (None is returned).             *)
(***************************************************************************)
EXTENDS Integers, Sequences, FiniteSets, TLC

VARIABLES
    impl,         \* which module's CCDCam: "indicam" or "sbigcam"
    debug,        \* self.debug
    frame_types,  \* labels the device declares for CCD_FRAME_TYPE
    pc,           \* position of the thread inside expose
    exptime,      \* argument of expose, in ticks
    exptype,      \* argument of expose
    writes,       \* writes submitted to the bus by the current operation
    queue,        \* self.receive_event_queue
    sent,         \* number of events the bus has delivered so far
    run,          \* local variable run of expose
    fitsdata,     \* local variable fitsdata of expose
    elapsed,      \* time.time() - t, in ticks
    timeout,      \* local variable timeout of expose, in ticks
    lastLog,      \* the call the last step of expose made on the logger, or NoLog
    exc,          \* the exception an operation ended with, or NoExc
    blob,         \* the BLOBVector event expose dequeued, or NoEvent
    arrived,      \* for each queued event, the tick at which it arrived (-1: before arming)
    blobAt,       \* when the dequeued BLOBVector event arrived and when it was dequeued
    serial,       \* for each queued event, its number in the order of arrival
    consumed,     \* numbers of the events expose has taken off the queue, in order
    calls,        \* number of expose calls that have returned
    threads,      \* the expose calls that run concurrently, one record per thread
    cls,          \* camera class of the controller (accessor operations)
    dev,          \* property values held by the device (accessor operations)
    op,           \* the last accessor operation and its request
    ret           \* value returned by the last accessor operation

vars == <<impl, debug, frame_types, pc, exptime, exptype, writes, queue, sent,
          run, fitsdata, elapsed, timeout, lastLog, exc, blob, arrived, blobAt,
          serial, consumed, calls, threads, cls, dev, op, ret>>

exposeVars == <<impl, debug, frame_types, pc, exptime, exptype, queue, sent,
                run, fitsdata, elapsed, timeout, lastLog, blob, arrived, blobAt,
                serial, consumed, calls, threads>>

accessorVars == <<cls, dev, op, ret, threads>>

----------------------------------------------------------------------------
(* Program constants (ticks of 0.1 s) *)

\* time.sleep(0.1): one poll interval is one tick
Poll == 1

\* timeout = exptime + 10.0
Grace == 100

\* exptime > 3600.0 is rejected
MaxExptime == 36000

(* Bounds of the model *)

\* longest exposure time (ticks) that is armed and waited for
MaxDur == 1

\* number of events the bus delivers in one behaviour
MaxEvents == 2

\* how far past the deadline the clock of a waiting call is followed
MaxOver == 2

\* largest binning factor a caller asks for
MaxBin == 2

\* CCD_MAX_X and CCD_MAX_Y of the sensor, in pixels
MaxPix == 2

\* number of expose calls made one after the other on one controller
MaxCalls == 2

\* largest CCD_MAX_X and CCD_MAX_Y of the sensors given to wfs_config
MaxSensor == 8

\* largest number of slots of a filter wheel
MaxFilters == 2

----------------------------------------------------------------------------
(* Values *)

Absent == "<absent>"
NoExc == "none"

\* fitsdata = None
None == [some |-> FALSE, FILTER |-> Absent, CAMERA |-> Absent]

NoEvent == [type |-> "none", format |-> "", text |-> <<>>,
            FILTER |-> Absent, CAMERA |-> Absent]

NoLog == [level |-> "none", msg |-> <<>>]

\* no accessor call is outstanding
NoOp == [name |-> "none", req |-> <<>>]

\* values an accessor returns, tagged with their Python type
RetNone == [kind |-> "None", val |-> <<>>]
RetStr(x) == [kind |-> "str", val |-> x]
RetNum(x) == [kind |-> "float", val |-> x]
RetDict(f) == [kind |-> "dict", val |-> f]
RetList(q) == [kind |-> "list", val |-> q]

\* a BLOBVector event whose first element has the given format and, when it
\* is a FITS container, the given header cards
BlobEvent(fmt, f, c) ==
    [type |-> "BLOBVector", format |-> fmt, text |-> <<>>, FILTER |-> f, CAMERA |-> c]

\* a message event; the text is a sequence of words
MessageEvent(words) ==
    [type |-> "message", format |-> "", text |-> words,
     FILTER |-> Absent, CAMERA |-> Absent]

\* any other vector update
VectorEvent ==
    [type |-> "NumberVector", format |-> "", text |-> <<>>,
     FILTER |-> Absent, CAMERA |-> Absent]

BlobEvents ==
    { BlobEvent(".fits", Absent, Absent),
      BlobEvent(".fits", "devfilter", "devcam"),
      BlobEvent(".stream", Absent, Absent) }

OtherEvents ==
    { MessageEvent(<<"ERROR", "busy">>),
      MessageEvent(<<"exposure", "done">>),
      VectorEvent }

Events == BlobEvents \cup OtherEvents

\* the frame-type labels of sbigcam.expose
SbigTypes == {"Light", "Dark", "Bias", "Flat"}

\* label sets a device may declare for CCD_FRAME_TYPE
DeviceProfiles == { SbigTypes, {"Light", "Sky"} }

\* frame types a caller asks for
RequestTypes == {"Dark", "Sky"}

\* exposure times a caller asks for
Durations == (-1 .. MaxDur) \cup {MaxExptime + 1}

----------------------------------------------------------------------------
(* Numbers handed to the accessors are fixed-point: the integer v stands   *)
(* for the Python number v / Den.                                          *)

\* denominator of the fixed-point numbers
Den == 2

\* the number n as a fixed-point value
Num(n) == n * Den

\* Python int(x): truncation toward zero
PyInt(v) == IF v >= 0 THEN (v \div Den) * Den ELSE -(((-v) \div Den) * Den)

Min(a, b) == IF a <= b THEN a ELSE b

\* the property values of a CCD Simulator as the tests find it
DefaultDev ==
    [HOR_BIN |-> Num(1), VER_BIN |-> Num(1),
     X |-> Num(0), Y |-> Num(0), WIDTH |-> Num(MaxPix), HEIGHT |-> Num(MaxPix),
     CCD_MAX_X |-> Num(MaxPix), CCD_MAX_Y |-> Num(MaxPix),
     FILTER_SLOT_VALUE |-> Num(1), FILTER_NAME |-> <<"R", "V">>,
     CCD_TEMPERATURE_VALUE |-> Num(20), CCD_COOLER_VALUE |-> Num(0),
     COOLER_ON |-> "Off", FAN_ON |-> "None",
     CONNECT |-> "On", BLOB_ENABLED |-> TRUE]

\* CCDCam.filters
filters(d) == d.FILTER_NAME

\* the getter taking the slot value as the list index
filter_NoOffset(d) ==
    LET slot == PyInt(d.FILTER_SLOT_VALUE) \div Den
    IN  IF slot >= 0 /\ slot < Len(filters(d)) THEN filters(d)[slot + 1] ELSE "None"

\* CCDCam.filter (getter); the string "None" stands for Python's None
filter(d) ==
    LET slot == (PyInt(d.FILTER_SLOT_VALUE) \div Den) - 1
    IN  IF slot >= 0 /\ slot < Len(filters(d)) THEN filters(d)[slot + 1] ELSE "None"

\* self.camera_name as the constructors set it
camera_name(c) ==
    CASE c = "CCDCam"   -> "MMTO Default"
      [] c = "ASICam"   -> "ZWO ASI Camera"
      [] c = "RATCam"   -> "RATcam"
      [] c = "SimCam"   -> "SimCam"
      [] c = "MATCam"   -> "MATcam"
      [] c = "F9WFSCam" -> "F/9 WFS"

----------------------------------------------------------------------------
(* expose *)

\* the marker test looking for another spelling
HasErrorMarker_Case(words) == \E i \in 1 .. Len(words) : words[i] = "Error"

\* "ERROR" in msg
HasErrorMarker(words) == \E i \in 1 .. Len(words) : words[i] = "ERROR"

\* exptype not in self.frame_types (indicam), not in the fixed list (sbigcam)
ValidType(im, f, types) ==
    IF im = "indicam" THEN f \in types ELSE f \in SbigTypes

\* the range check without its upper limit
ValidTime_NoUpper(d) == ~(d < 0)

\* not (exptime < 0.0 or exptime > 3600.0)
ValidTime(d) == ~(d < 0 \/ d > MaxExptime)

\* outcome of a write: the updated vector is returned, or None
WriteOutcomes == {"vector", "None"}

\* a switch write by element label
SwitchWrite(vec, label) == [vector |-> vec, element |-> label, value |-> 1]

\* a number write
NumberWrite(vec, el, v) == [vector |-> vec, element |-> el, value |-> v]

\* the stamping with FILTER written whether or not the header has it
Stamp_Overwrite(ev, c, d) ==
    [some |-> TRUE, FILTER |-> filter(d), CAMERA |-> camera_name(c)]

\* the header stamping of expose (indicam): FILTER only when it is absent,
\* CAMERA always
Stamp(ev, c, d) ==
    [some |-> TRUE,
     FILTER |-> IF ev.FILTER = Absent THEN filter(d) ELSE ev.FILTER,
     CAMERA |-> camera_name(c)]

\* fits.open(buf) with no stamping (sbigcam)
Decode(ev) == [some |-> TRUE, FILTER |-> ev.FILTER, CAMERA |-> ev.CAMERA]

\* the format test against another suffix
ImageOf_WrongFormat(im, ev, c, d) ==
    IF ev.format = ".fit"
    THEN IF im = "indicam" THEN Stamp(ev, c, d) ELSE Decode(ev)
    ELSE None

\* the image expose builds from a BLOBVector event
ImageOf(im, ev, c, d) ==
    IF ev.format = ".fits"
    THEN IF im = "indicam" THEN Stamp(ev, c, d) ELSE Decode(ev)
    ELSE None

\* the deadline test firing one tick early
TimedOut_Early(im, e, t) == im = "indicam" /\ e >= t

\* the deadline test of the poll loop; sbigcam has none
TimedOut(im, e, t) == im = "indicam" /\ e > t

\* the call and its two validations
ExposeCall(d, f) ==
    /\ pc = "idle"
    /\ exptime' = d
    /\ exptype' = f
    /\ writes' = <<>>
    /\ IF ~ValidType(impl, f, frame_types) \/ ~ValidTime(d)
       THEN pc' = "raised" /\ exc' = "Exception"
       ELSE pc' = "frame_type" /\ exc' = NoExc
    /\ UNCHANGED <<impl, debug, frame_types, queue, sent, run, fitsdata, elapsed,
                   timeout, lastLog, blob, arrived, blobAt, serial, consumed, calls, accessorVars>>

\* ft_vec = set_and_send_switchvector_by_elementlabel(..., "CCD_FRAME_TYPE", exptype)
\* if self.debug: ft_vec.tell()
WriteFrameType(r) ==
    /\ pc = "frame_type"
    /\ writes' = Append(writes, SwitchWrite("CCD_FRAME_TYPE", exptype))
    /\ IF debug /\ r = "None"
       THEN pc' = "raised" /\ exc' = "AttributeError"
       ELSE pc' = "exposure" /\ exc' = exc
    /\ UNCHANGED <<impl, debug, frame_types, exptime, exptype, queue, sent, run,
                   fitsdata, elapsed, timeout, lastLog, blob, arrived, blobAt, serial, consumed, calls, accessorVars>>

\* exp_vec = set_and_send_float(..., "CCD_EXPOSURE", "CCD_EXPOSURE_VALUE", exptime)
\* if self.debug: exp_vec.tell()
\* fitsdata = None; run = True; t = time.time(); timeout = exptime + 10.0
WriteExposure(r) ==
    /\ pc = "exposure"
    /\ writes' = Append(writes, NumberWrite("CCD_EXPOSURE", "CCD_EXPOSURE_VALUE", exptime))
    /\ IF debug /\ r = "None"
       THEN /\ pc' = "raised" /\ exc' = "AttributeError"
            /\ UNCHANGED <<fitsdata, run, elapsed, timeout>>
       ELSE /\ pc' = "while_run" /\ exc' = exc
            /\ fitsdata' = None
            /\ run' = TRUE
            /\ elapsed' = 0
            /\ timeout' = exptime + Grace
    /\ UNCHANGED <<impl, debug, frame_types, exptime, exptype, queue, sent,
                   lastLog, blob, arrived, blobAt, serial, consumed, calls, accessorVars>>

\* while run: ... return fitsdata
WhileRun ==
    /\ pc = "while_run"
    /\ pc' = IF run THEN "drain" ELSE "done"
    /\ lastLog' = NoLog
    /\ UNCHANGED <<impl, debug, frame_types, exptime, exptype, writes, queue, sent,
                   run, fitsdata, elapsed, timeout, exc, blob, arrived, blobAt, serial, consumed, calls, accessorVars>>

\* self.receive_event_queue.get(): the oldest entry leaves the queue
get(q) == [item |-> Head(q), rest |-> Tail(q)]

\* the pass putting an event it does not act on back on the queue
Drain_Requeue ==
    /\ pc = "drain"
    /\ IF queue = <<>>
       THEN /\ pc' = "check"
            /\ lastLog' = NoLog
            /\ UNCHANGED <<queue, arrived, serial, consumed, run, fitsdata, blob, blobAt>>
       ELSE LET vector == get(queue).item IN
            /\ LET back == vector.type = "NumberVector" IN
               /\ queue' = IF back THEN Append(get(queue).rest, vector)
                                   ELSE get(queue).rest
               /\ arrived' = IF back THEN Append(get(arrived).rest, get(arrived).item)
                                     ELSE get(arrived).rest
               /\ serial' = IF back THEN Append(get(serial).rest, get(serial).item)
                                    ELSE get(serial).rest
            /\ consumed' = Append(consumed, get(serial).item)
            /\ IF vector.type = "BLOBVector"
               THEN /\ fitsdata' = ImageOf(impl, vector, cls, dev)
                    /\ run' = FALSE
                    /\ blob' = vector
                    /\ blobAt' = [arr |-> get(arrived).item, at |-> elapsed]
                    /\ pc' = "check"
                    /\ lastLog' = IF impl = "indicam"
                                  THEN [level |-> "info", msg |-> <<"Reading", "FITS">>]
                                  ELSE NoLog
               ELSE /\ pc' = "drain"
                    /\ lastLog' =
                         IF impl = "indicam" /\ vector.type = "message"
                         THEN [level |-> IF HasErrorMarker(vector.text)
                                         THEN "error" ELSE "info",
                               msg |-> vector.text]
                         ELSE NoLog
                    /\ UNCHANGED <<run, fitsdata, blob, blobAt>>
    /\ UNCHANGED <<impl, debug, frame_types, exptime, exptype, writes, sent,
                   elapsed, timeout, exc, calls, accessorVars>>

\* the pass going on with the queue after a binary event
Drain_NoBreak ==
    /\ pc = "drain"
    /\ IF queue = <<>>
       THEN /\ pc' = "check"
            /\ lastLog' = NoLog
            /\ UNCHANGED <<queue, arrived, serial, consumed, run, fitsdata, blob, blobAt>>
       ELSE LET vector == get(queue).item IN
            /\ queue' = get(queue).rest
            /\ arrived' = get(arrived).rest
            /\ serial' = get(serial).rest
            /\ consumed' = Append(consumed, get(serial).item)
            /\ IF vector.type = "BLOBVector"
               THEN /\ fitsdata' = ImageOf(impl, vector, cls, dev)
                    /\ run' = FALSE
                    /\ blob' = vector
                    /\ blobAt' = [arr |-> get(arrived).item, at |-> elapsed]
                    /\ pc' = "drain"
                    /\ lastLog' = IF impl = "indicam"
                                  THEN [level |-> "info", msg |-> <<"Reading", "FITS">>]
                                  ELSE NoLog
               ELSE /\ pc' = "drain"
                    /\ lastLog' =
                         IF impl = "indicam" /\ vector.type = "message"
                         THEN [level |-> IF HasErrorMarker(vector.text)
                                         THEN "error" ELSE "info",
                               msg |-> vector.text]
                         ELSE NoLog
                    /\ UNCHANGED <<run, fitsdata, blob, blobAt>>
    /\ UNCHANGED <<impl, debug, frame_types, exptime, exptype, writes, sent,
                   elapsed, timeout, exc, calls, accessorVars>>

\* one pass of: while self.receive_event_queue.empty() is False:
Drain ==
    /\ pc = "drain"
    /\ IF queue = <<>>
       THEN /\ pc' = "check"
            /\ lastLog' = NoLog
            /\ UNCHANGED <<queue, arrived, serial, consumed, run, fitsdata, blob, blobAt>>
       ELSE LET vector == get(queue).item IN
            /\ queue' = get(queue).rest
            /\ arrived' = get(arrived).rest
            /\ serial' = get(serial).rest
            /\ consumed' = Append(consumed, get(serial).item)
            /\ IF vector.type = "BLOBVector"
               THEN /\ fitsdata' = ImageOf(impl, vector, cls, dev)
                    /\ run' = FALSE
                    /\ blob' = vector
                    /\ blobAt' = [arr |-> get(arrived).item, at |-> elapsed]
                    /\ pc' = "check"
                    /\ lastLog' = IF impl = "indicam"
                                  THEN [level |-> "info", msg |-> <<"Reading", "FITS">>]
                                  ELSE NoLog
               ELSE /\ pc' = "drain"
                    /\ lastLog' =
                         IF impl = "indicam" /\ vector.type = "message"
                         THEN [level |-> IF HasErrorMarker(vector.text)
                                         THEN "error" ELSE "info",
                               msg |-> vector.text]
                         ELSE NoLog
                    /\ UNCHANGED <<run, fitsdata, blob, blobAt>>
    /\ UNCHANGED <<impl, debug, frame_types, exptime, exptype, writes, sent,
                   elapsed, timeout, exc, calls, accessorVars>>

\* if ((time.time() - t) > timeout): log.warning(...); break
CheckDeadline ==
    /\ pc = "check"
    /\ IF TimedOut(impl, elapsed, timeout)
       THEN /\ pc' = "done"
            /\ lastLog' = [level |-> "warning", msg |-> <<"Exposure", "timed", "out">>]
       ELSE /\ pc' = "sleep"
            /\ lastLog' = NoLog
    /\ UNCHANGED <<impl, debug, frame_types, exptime, exptype, writes, queue, sent,
                   run, fitsdata, elapsed, timeout, exc, blob, arrived, blobAt, serial, consumed, calls, accessorVars>>

\* time.sleep(0.1)
Sleep ==
    /\ pc = "sleep"
    /\ elapsed <= timeout + MaxOver
    /\ elapsed' = elapsed + Poll
    /\ pc' = "while_run"
    /\ lastLog' = NoLog
    /\ UNCHANGED <<impl, debug, frame_types, exptime, exptype, writes, queue, sent,
                   run, fitsdata, timeout, exc, blob, arrived, blobAt, serial, consumed, calls, accessorVars>>

\* the bus thread puts an inbound event on the receive queue; the statements
\* between two sleeps take no time, so an event arrives before the call or
\* while the thread sleeps
Deliver(ev) ==
    /\ sent < MaxEvents
    /\ pc \in {"idle", "sleep"}
    /\ sent' = sent + 1
    /\ queue' = Append(queue, ev)
    /\ arrived' = Append(arrived, IF pc = "idle" THEN -1 ELSE elapsed)
    /\ serial' = Append(serial, sent + 1)
    /\ UNCHANGED <<impl, debug, frame_types, pc, exptime, exptype, writes, run,
                   fitsdata, elapsed, timeout, lastLog, exc, blob, blobAt, consumed,
                   calls, accessorVars>>

\* the steps of the thread that runs expose
ExposeStep ==
    \/ \E d \in Durations, f \in RequestTypes : ExposeCall(d, f)
    \/ \E r \in WriteOutcomes : WriteFrameType(r)
    \/ \E r \in WriteOutcomes : WriteExposure(r)
    \/ WhileRun
    \/ Drain
    \/ CheckDeadline
    \/ Sleep

\* the state every behaviour starts in: a constructed controller, no call made
Start ==
    /\ pc = "idle"
    /\ exptime = 0
    /\ exptype = "Light"
    /\ writes = <<>>
    /\ queue = <<>>
    /\ sent = 0
    /\ run = FALSE
    /\ fitsdata = None
    /\ elapsed = 0
    /\ timeout = 0
    /\ lastLog = NoLog
    /\ exc = NoExc
    /\ blob = NoEvent
    /\ arrived = <<>>
    /\ blobAt = [arr |-> -1, at |-> -1]
    /\ serial = <<>>
    /\ consumed = <<>>
    /\ calls = 0
    /\ threads = <<>>
    /\ dev = DefaultDev
    /\ op = NoOp
    /\ ret = RetNone

Init ==
    /\ Start
    /\ impl \in {"indicam", "sbigcam"}
    /\ debug \in BOOLEAN
    /\ frame_types \in DeviceProfiles
    /\ cls = "CCDCam"

Next ==
    \/ \E d \in Durations, f \in RequestTypes : ExposeCall(d, f)
    \/ \E r \in WriteOutcomes : WriteFrameType(r)
    \/ \E r \in WriteOutcomes : WriteExposure(r)
    \/ WhileRun
    \/ Drain
    \/ CheckDeadline
    \/ Sleep
    \/ \E ev \in Events : Deliver(ev)

Spec == Init /\ [][Next]_vars

----------------------------------------------------------------------------
(* Accessors.  Each accessor call is one step on a bus that applies every   *)
(* submitted write and gives it back as read state; the caller then drops   *)
(* the result (Discard) before the next mutating call.                      *)

\* the steps of expose are not part of the accessor specifications
exposeIdle == pc = "idle" /\ UNCHANGED exposeVars

\* set_and_send_*: the device takes the written values
RECURSIVE Echo(_, _)
Echo(d, ws) ==
    IF ws = <<>> THEN d
    ELSE Echo([d EXCEPT ![Head(ws).element] = Head(ws).value], Tail(ws))

\* the caller drops the result of the last call
Discard ==
    /\ op # NoOp \/ ret # RetNone
    /\ op' = NoOp
    /\ ret' = RetNone
    /\ writes' = <<>>
    /\ exc' = NoExc
    /\ exposeIdle
    /\ UNCHANGED <<cls, dev>>

\* CCDCam.ccd_info
ccd_info(d) == [CCD_MAX_X |-> d.CCD_MAX_X, CCD_MAX_Y |-> d.CCD_MAX_Y]

\* CCDCam.binning (getter): {e.label: e.get_int()}
binning(d) == [X |-> PyInt(d.HOR_BIN), Y |-> PyInt(d.VER_BIN)]

\* the Y branch of the setter writing the horizontal element
BinningWrites_SameElement(req) ==
    (IF "X" \in DOMAIN req /\ req["X"] >= Num(1)
     THEN << NumberWrite("CCD_BINNING", "HOR_BIN", PyInt(req["X"])) >> ELSE <<>>)
    \o
    (IF "Y" \in DOMAIN req /\ req["Y"] >= Num(1)
     THEN << NumberWrite("CCD_BINNING", "HOR_BIN", PyInt(req["Y"])) >> ELSE <<>>)

\* CCDCam.binning (setter): the writes it submits
BinningWrites(req) ==
    (IF "X" \in DOMAIN req /\ req["X"] >= Num(1)
     THEN << NumberWrite("CCD_BINNING", "HOR_BIN", PyInt(req["X"])) >> ELSE <<>>)
    \o
    (IF "Y" \in DOMAIN req /\ req["Y"] >= Num(1)
     THEN << NumberWrite("CCD_BINNING", "VER_BIN", PyInt(req["Y"])) >> ELSE <<>>)

\* binning values a caller asks for: 0 .. MaxBin in steps of 1 / Den
BinVals == 0 .. Num(MaxBin)

BinRequests == UNION { [K -> BinVals] : K \in SUBSET {"X", "Y"} }

\* cam.binning = bindict
SetBinning(req) ==
    /\ op = NoOp /\ ret = RetNone
    /\ writes' = BinningWrites(req)
    /\ dev' = Echo(dev, writes')
    /\ op' = [name |-> "set_binning", req |-> req]
    /\ ret' = RetNone
    /\ exc' = NoExc
    /\ exposeIdle
    /\ UNCHANGED cls

\* cam.binning
GetBinning ==
    /\ op.name \in {"none", "set_binning"} /\ ret = RetNone
    /\ ret' = RetDict(binning(dev))
    /\ exposeIdle
    /\ UNCHANGED <<cls, dev, op, writes, exc>>

InitAccessors ==
    /\ Start
    /\ impl = "indicam" /\ debug = TRUE /\ frame_types = SbigTypes
    /\ cls = "CCDCam"

\* no call is outstanding
Ready == op = NoOp /\ ret = RetNone

NextBinning ==
    \/ Ready /\ \E req \in BinRequests : SetBinning(req)
    \/ GetBinning
    \/ Discard

SpecBinning == InitAccessors /\ [][NextBinning]_vars

\* the getter reporting the upper corner in place of the extent
frame_UpperCorner(d) ==
    [X |-> d.X, Y |-> d.Y, width |-> d.X + d.WIDTH, height |-> d.Y + d.HEIGHT]

\* CCDCam.frame (getter)
frame(d) == [X |-> d.X, Y |-> d.Y, width |-> d.WIDTH, height |-> d.HEIGHT]

\* one axis of the frame setter: the offset, then the clamped extent
AxisWrites(req, lower, extent, elLower, elExtent, max) ==
    IF lower \in DOMAIN req /\ req[lower] >= 0 /\ req[lower] <= max
    THEN << NumberWrite("CCD_FRAME", elLower, PyInt(req[lower])) >>
         \o (IF extent \in DOMAIN req
             THEN LET new == Min(req[extent], max - req[lower])
                  IN  IF new >= Num(1)
                      THEN << NumberWrite("CCD_FRAME", elExtent, PyInt(new)) >>
                      ELSE <<>>
             ELSE <<>>)
    ELSE <<>>

\* the setter submitting the requested extent as it is
FrameWrites_NoClamp(req, info) ==
    (IF "X" \in DOMAIN req /\ req["X"] >= 0 /\ req["X"] <= info.CCD_MAX_X
     THEN << NumberWrite("CCD_FRAME", "X", PyInt(req["X"])) >>
          \o (IF "width" \in DOMAIN req /\ req["width"] >= Num(1)
              THEN << NumberWrite("CCD_FRAME", "WIDTH", PyInt(req["width"])) >>
              ELSE <<>>)
     ELSE <<>>)
    \o AxisWrites(req, "Y", "height", "Y", "HEIGHT", info.CCD_MAX_Y)

\* CCDCam.frame (setter): the writes it submits
FrameWrites(req, info) ==
    AxisWrites(req, "X", "width", "X", "WIDTH", info.CCD_MAX_X)
    \o AxisWrites(req, "Y", "height", "Y", "HEIGHT", info.CCD_MAX_Y)

\* values a caller asks for on the X axis: -1/Den .. MaxPix + 1 in steps of 1 / Den
FrameVals == -1 .. Num(MaxPix + 1)

\* the Y branch is the X branch with the names changed; it is exercised on
\* whole numbers
WholeVals == { Num(n) : n \in -1 .. MaxPix + 1 }

FrameRequests ==
    UNION { { fx @@ fy : fx \in [KX -> FrameVals], fy \in [KY -> WholeVals] } :
            KX \in SUBSET {"X", "width"}, KY \in SUBSET {"Y", "height"} }

\* cam.frame = framedict
SetFrame(req) ==
    /\ op = NoOp /\ ret = RetNone
    /\ writes' = FrameWrites(req, ccd_info(dev))
    /\ dev' = Echo(dev, writes')
    /\ op' = [name |-> "set_frame", req |-> req]
    /\ ret' = RetNone
    /\ exc' = NoExc
    /\ exposeIdle
    /\ UNCHANGED cls

\* cam.frame
GetFrame ==
    /\ op.name \in {"none", "set_frame"} /\ ret = RetNone
    /\ ret' = RetDict(frame(dev))
    /\ exposeIdle
    /\ UNCHANGED <<cls, dev, op, writes, exc>>

NextFrame ==
    \/ Ready /\ \E req \in FrameRequests : SetFrame(req)
    \/ GetFrame
    \/ Discard

SpecFrame == InitAccessors /\ [][NextFrame]_vars

(* Camera models.  A class body that defines a property defines it whole: *)
(* a subclass that overrides only the getter of a property has no setter.  *)

Classes == {"CCDCam", "ASICam", "RATCam", "SimCam", "MATCam", "F9WFSCam"}

\* properties and methods of CCDCam that touch an optional capability
BaseMembers ==
    { <<"temperature", "get">>, <<"temperature", "set">>,
      <<"cooling_power", "get">>, <<"cooler", "get">>, <<"fan", "get">>,
      <<"filters", "get">>, <<"filter", "get">>, <<"filter", "set">>,
      <<"cooling_on", "call">>, <<"cooling_off", "call">> }

\* what each subclass body defines for these members
Overrides(c) ==
    CASE c = "ASICam"   -> { <<"filters", "get">>, <<"filter", "get">>, <<"filter", "set">> }
      [] c = "RATCam"   -> { <<"temperature", "get">>, <<"cooling_power", "get">>,
                             <<"cooler", "get">>, <<"fan", "get">>,
                             <<"filters", "get">>, <<"filter", "get">>, <<"filter", "set">>,
                             <<"cooling_on", "call">>, <<"cooling_off", "call">> }
      [] c = "SimCam"   -> { <<"cooling_power", "get">> }
      [] c = "F9WFSCam" -> { <<"filters", "get">>, <<"filter", "get">>, <<"filter", "set">>,
                             <<"fan_on", "call">>, <<"fan_off", "call">> }
      [] OTHER          -> {}

\* the accessors a caller may use
Accessors == BaseMembers \cup { <<"fan_on", "call">>, <<"fan_off", "call">> }

\* attribute lookup that finds the base class setter behind an overridden getter
Lookup_PerAccessor(c, m, a) ==
    IF <<m, a>> \in Overrides(c) THEN "own"
    ELSE IF <<m, a>> \in BaseMembers THEN "base" ELSE "missing"

\* Python attribute lookup of accessor a of member m on class c
Lookup(c, m, a) ==
    IF \E b \in {"get", "set", "call"} : <<m, b>> \in Overrides(c)
    THEN IF <<m, a>> \in Overrides(c) THEN "own" ELSE "missing"
    ELSE IF <<m, a>> \in BaseMembers THEN "base" ELSE "missing"

\* what the overriding accessors of the subclasses return
StubValue(m, a) ==
    CASE m = "filters"             -> RetList(<<"N/A">>)
      [] m = "filter" /\ a = "get" -> RetStr("N/A")
      [] OTHER                     -> RetNone

\* arguments handed to the setters: a temperature, a filter index or name
TemperatureArgs == { Num(-10), Num(20) }
FilterArgs == { [int |-> TRUE, i |-> 1, s |-> ""], [int |-> FALSE, i |-> 0, s |-> "V"] }

\* index of the first occurrence of a name in a list, 0-indexed (list.index)
IndexOf(q, x) ==
    (CHOOSE i \in 1 .. Len(q) : q[i] = x /\ \A k \in 1 .. i - 1 : q[k] # x) - 1

\* the setter writing the 0-indexed position as the slot
FilterWrites_ZeroIndexed(f, d) ==
    IF f.int
    THEN IF f.i >= 0 /\ f.i < Len(filters(d))
         THEN << NumberWrite("FILTER_SLOT", "FILTER_SLOT_VALUE", Num(f.i)) >> ELSE <<>>
    ELSE IF \E i \in 1 .. Len(filters(d)) : filters(d)[i] = f.s
         THEN << NumberWrite("FILTER_SLOT", "FILTER_SLOT_VALUE",
                             Num(IndexOf(filters(d), f.s))) >>
         ELSE <<>>

\* CCDCam.filter (setter): the writes it submits
FilterWrites(f, d) ==
    IF f.int
    THEN IF f.i >= 0 /\ f.i < Len(filters(d))
         THEN << NumberWrite("FILTER_SLOT", "FILTER_SLOT_VALUE", Num(f.i + 1)) >> ELSE <<>>
    ELSE IF \E i \in 1 .. Len(filters(d)) : filters(d)[i] = f.s
         THEN << NumberWrite("FILTER_SLOT", "FILTER_SLOT_VALUE",
                             Num(IndexOf(filters(d), f.s) + 1)) >>
         ELSE <<>>

\* the writes of the CCDCam implementation of an accessor
BaseWrites(m, a, arg, d) ==
    CASE m = "temperature" /\ a = "set" ->
            << NumberWrite("CCD_TEMPERATURE", "CCD_TEMPERATURE_VALUE", arg) >>
      [] m = "filter" /\ a = "set"      -> FilterWrites(arg, d)
      [] m = "cooling_on"               ->
            << [vector |-> "CCD_COOLER", element |-> "COOLER_ON", value |-> "On"] >>
      [] m = "cooling_off"              ->
            << [vector |-> "CCD_COOLER", element |-> "COOLER_ON", value |-> "Off"] >>
      [] OTHER                          -> <<>>

\* the value the CCDCam implementation of an accessor returns
BaseValue(m, a, d) ==
    CASE m = "temperature" /\ a = "get"   -> RetNum(d.CCD_TEMPERATURE_VALUE)
      [] m = "cooling_power" /\ a = "get" -> RetNum(d.CCD_COOLER_VALUE)
      [] m = "cooler" /\ a = "get"        -> RetStr(d.COOLER_ON)
      [] m = "fan" /\ a = "get"           -> RetStr(d.FAN_ON)
      [] m = "filters" /\ a = "get"       -> RetList(filters(d))
      [] m = "filter" /\ a = "get"        -> RetStr(filter(d))
      [] m \in {"cooling_on", "cooling_off"} -> RetStr("vector")
      [] OTHER                            -> RetNone

ArgsOf(m, a) ==
    CASE m = "temperature" /\ a = "set" -> TemperatureArgs
      [] m = "filter" /\ a = "set"      -> FilterArgs
      [] OTHER                          -> { 0 }

\* one use of an accessor of a camera object
Access(m, a, arg) ==
    /\ op = NoOp /\ ret = RetNone
    /\ op' = [name |-> "access", req |-> <<m, a>>]
    /\ LET how == Lookup(cls, m, a) IN
       /\ exc' = IF how = "missing" THEN "AttributeError" ELSE NoExc
       /\ writes' = IF how = "base" THEN BaseWrites(m, a, arg, dev) ELSE <<>>
       /\ ret' = CASE how = "base" -> BaseValue(m, a, dev)
                   [] how = "own"  -> StubValue(m, a)
                   [] OTHER        -> RetNone
    /\ dev' = Echo(dev, writes')
    /\ exposeIdle
    /\ UNCHANGED cls

InitModels ==
    /\ Start
    /\ impl = "indicam" /\ debug = TRUE /\ frame_types = SbigTypes
    /\ cls \in Classes

NextModels ==
    \/ Ready /\ \E ma \in Accessors : \E arg \in ArgsOf(ma[1], ma[2]) :
                  Access(ma[1], ma[2], arg)
    \/ Discard

SpecModels == InitModels /\ [][NextModels]_vars

(* Filter wheel *)

\* names a filter wheel may hold; a wheel may hold the same name twice
FilterNames == {"R", "V"}

FilterLists ==
    UNION { [1 .. n -> FilterNames] : n \in 1 .. MaxFilters }

\* slot values a device reports: whole numbers, also ones no slot of the
\* wheel has (0: wheel moving or not homed)
SlotValues == { Num(k) : k \in 0 .. MaxFilters + 1 }

\* what a caller assigns to cam.filter: an index or a name
FilterRequests ==
    { [int |-> TRUE, i |-> i, s |-> ""] : i \in -1 .. MaxFilters }
    \cup { [int |-> FALSE, i |-> 0, s |-> n] : n \in FilterNames \cup {"B"} }

\* cam.filter = f
SetFilter(f) ==
    /\ op = NoOp /\ ret = RetNone
    /\ writes' = FilterWrites(f, dev)
    /\ dev' = Echo(dev, writes')
    /\ op' = [name |-> "set_filter", req |-> f]
    /\ ret' = RetNone
    /\ exc' = NoExc
    /\ exposeIdle
    /\ UNCHANGED cls

\* cam.filter
GetFilter ==
    /\ op.name \in {"none", "set_filter"} /\ ret = RetNone
    /\ ret' = RetStr(filter(dev))
    /\ exposeIdle
    /\ UNCHANGED <<cls, dev, op, writes, exc>>

InitFilter ==
    /\ pc = "idle" /\ exptime = 0 /\ exptype = "Light" /\ writes = <<>>
    /\ queue = <<>> /\ sent = 0 /\ run = FALSE /\ fitsdata = None
    /\ elapsed = 0 /\ timeout = 0 /\ lastLog = NoLog /\ exc = NoExc
    /\ blob = NoEvent /\ arrived = <<>> /\ blobAt = [arr |-> -1, at |-> -1]
    /\ serial = <<>> /\ consumed = <<>> /\ calls = 0
    /\ threads = <<>>
    /\ op = NoOp /\ ret = RetNone
    /\ impl = "indicam" /\ debug = TRUE /\ frame_types = SbigTypes
    /\ cls = "CCDCam"
    /\ \E names \in FilterLists, slot \in SlotValues :
          dev = [DefaultDev EXCEPT !.FILTER_NAME = names, !.FILTER_SLOT_VALUE = slot]

NextFilter ==
    \/ Ready /\ \E f \in FilterRequests : SetFilter(f)
    \/ GetFilter
    \/ Discard

SpecFilter == InitFilter /\ [][NextFilter]_vars

(* F9WFSCam.wfs_config *)

\* int(v / k) rounding toward minus infinity
TruncDiv_Floor(v, k) == Num(v \div (k * Den))

\* int(v / k) for a number v: the quotient truncated toward zero
TruncDiv(v, k) ==
    IF v >= 0 THEN Num(v \div (k * Den)) ELSE -Num((-v) \div (k * Den))

\* F9WFSCam.wfs_subim (indicam): the frame request it hands to the setter
wfs_subim(info) ==
    [X |-> TruncDiv(info.CCD_MAX_X - info.CCD_MAX_Y, 6),
     Y |-> 0,
     width |-> PyInt(info.CCD_MAX_Y),
     height |-> PyInt(info.CCD_MAX_Y)]

\* the frame writes of wfs_config: through the frame setter (indicam), or
\* submitted one by one as they are (sbigcam)
WfsFrameWrites(im, info) ==
    IF im = "indicam"
    THEN FrameWrites(wfs_subim(info), info)
    ELSE << NumberWrite("CCD_FRAME", "X", TruncDiv(info.CCD_MAX_X - info.CCD_MAX_Y, 6)),
            NumberWrite("CCD_FRAME", "Y", 0),
            NumberWrite("CCD_FRAME", "WIDTH", info.CCD_MAX_Y),
            NumberWrite("CCD_FRAME", "HEIGHT", info.CCD_MAX_Y) >>

\* cam.wfs_config()
WfsConfig ==
    /\ op = NoOp /\ ret = RetNone
    /\ cls = "F9WFSCam"
    /\ writes' = BinningWrites([X |-> Num(3), Y |-> Num(3)])
                 \o WfsFrameWrites(impl, ccd_info(dev))
    /\ dev' = Echo(dev, writes')
    /\ op' = [name |-> "wfs_config", req |-> <<>>]
    /\ ret' = RetNone
    /\ exc' = NoExc
    /\ exposeIdle
    /\ UNCHANGED cls

\* sensor sizes, in pixels
SensorSizes == { Num(n) : n \in 1 .. MaxSensor }

\* an F9WFSCam of either module on a sensor of any geometry, at full frame
InitWfs ==
    /\ pc = "idle" /\ exptime = 0 /\ exptype = "Light" /\ writes = <<>>
    /\ queue = <<>> /\ sent = 0 /\ run = FALSE /\ fitsdata = None
    /\ elapsed = 0 /\ timeout = 0 /\ lastLog = NoLog /\ exc = NoExc
    /\ blob = NoEvent /\ arrived = <<>> /\ blobAt = [arr |-> -1, at |-> -1]
    /\ serial = <<>> /\ consumed = <<>> /\ calls = 0
    /\ threads = <<>>
    /\ op = NoOp /\ ret = RetNone
    /\ impl \in {"indicam", "sbigcam"}
    /\ debug = TRUE /\ frame_types = SbigTypes
    /\ cls = "F9WFSCam"
    /\ \E mx \in SensorSizes, my \in SensorSizes :
          dev = [DefaultDev EXCEPT !.CCD_MAX_X = mx, !.CCD_MAX_Y = my,
                                   !.WIDTH = mx, !.HEIGHT = my]

NextWfs ==
    \/ WfsConfig
    \/ Discard

SpecWfs == InitWfs /\ [][NextWfs]_vars

(* Connection.  A CONNECTION write is confirmed (the vector is returned) *)
(* or not (None is returned); a confirmed write has been applied by the    *)
(* device, an unconfirmed one may or may not have been.                    *)

\* the status test accepting any reported status
connected_AnyStatus(d) == d.CONNECT \in {"On", "Off"}

\* CCDCam.connected
connected(d) == d.CONNECT = "On"

\* outcomes of a CONNECTION write
ConnOutcomes ==
    { [vec |-> "vector", applied |-> TRUE],
      [vec |-> "None", applied |-> TRUE],
      [vec |-> "None", applied |-> FALSE] }

\* the device after a CONNECTION write with the given element label
ApplyConnection(d, label, o) ==
    IF o.applied
    THEN [d EXCEPT !.CONNECT = IF label = "Connect" THEN "On" ELSE "Off"]
    ELSE d

\* a text write
TextWrite(vec, el, v) == [vector |-> vec, element |-> el, value |-> v]

\* the last connect(), disconnect() or construction; a read keeps it in req
LastCall == IF op.name = "temperature" THEN op.req ELSE op

\* what the subclass constructors submit after CCDCam.__init__
SubclassWrites(c) ==
    CASE c = "RATCam"   -> << TextWrite("FITS_HEADER", "FITS_OBSERVER",
                                        "Rotator Alignment Telescope") >>
      [] c = "SimCam"   -> << TextWrite("FITS_HEADER", "FITS_OBSERVER",
                                        "INDI CCD Simulator") >>
      [] c = "MATCam"   -> << SwitchWrite("CFW_TYPE", "CFW-402"),
                              SwitchWrite("CFW_CONNECTION", "Connect"),
                              TextWrite("FITS_HEADER", "FITS_OBSERVER",
                                        "Mount Alignment Telescope") >>
      [] c = "F9WFSCam" -> << SwitchWrite("CONNECTION", "Connect") >>
      [] OTHER          -> <<>>

\* CCDCam.__init__ followed by the constructor of subclass c; o1 is the outcome
\* of the write of CCDCam.__init__, o2 of the connect() of F9WFSCam.__init__
Construct(c, o1, o2) ==
    /\ cls = "none"
    /\ c # "CCDCam" => debug
    /\ LET enabled == [dev EXCEPT !.BLOB_ENABLED = TRUE]
           base == IF ~connected(enabled)
                   THEN ApplyConnection(enabled, "Connect", o1) ELSE enabled
       IN  /\ writes' = (IF ~connected(enabled)
                         THEN << SwitchWrite("CONNECTION", "Connect") >> ELSE <<>>)
                        \o SubclassWrites(c)
           /\ dev' = IF c = "F9WFSCam"
                     THEN ApplyConnection(base, "Connect", o2) ELSE base
    /\ cls' = c
    /\ op' = [name |-> "__init__", req |-> [vec |-> o1.vec, prev |-> "none"]]
    /\ ret' = RetNone
    /\ exc' = NoExc
    /\ exposeIdle

\* CCDCam.connect
Connect(o) ==
    /\ cls # "none"
    /\ writes' = << SwitchWrite("CONNECTION", "Connect") >>
    /\ dev' = ApplyConnection(dev, "Connect", o)
    /\ op' = [name |-> "connect", req |-> [vec |-> o.vec, prev |-> LastCall.name]]
    /\ ret' = IF o.vec = "vector" THEN RetStr("vector") ELSE RetNone
    /\ exc' = NoExc
    /\ exposeIdle
    /\ UNCHANGED cls

\* CCDCam.disconnect
Disconnect(o) ==
    /\ cls # "none"
    /\ writes' = << SwitchWrite("CONNECTION", "Disconnect") >>
    /\ dev' = ApplyConnection(dev, "Disconnect", o)
    /\ op' = [name |-> "disconnect", req |-> [vec |-> o.vec, prev |-> LastCall.name]]
    /\ IF debug /\ o.vec = "None"
       THEN ret' = RetNone /\ exc' = "AttributeError"
       ELSE /\ ret' = IF o.vec = "vector" THEN RetStr("vector") ELSE RetNone
            /\ exc' = NoExc
    /\ exposeIdle
    /\ UNCHANGED cls

\* t = cam.temperature; what a read gives while the device is disconnected is
\* not fixed by the sources: the held value, or a failure
ReadTemperature(ok) ==
    /\ cls # "none"
    /\ op.name # "temperature"
    /\ connected(dev) => ok
    /\ op' = [name |-> "temperature", req |-> op]
    /\ writes' = <<>>
    /\ IF ok
       THEN /\ ret' = IF Lookup(cls, "temperature", "get") = "base"
                      THEN BaseValue("temperature", "get", dev)
                      ELSE StubValue("temperature", "get")
            /\ exc' = NoExc
       ELSE ret' = RetNone /\ exc' = "Exception"
    /\ exposeIdle
    /\ UNCHANGED <<cls, dev>>

\* before construction: the device may or may not report itself connected
InitConnect ==
    /\ pc = "idle" /\ exptime = 0 /\ exptype = "Light" /\ writes = <<>>
    /\ queue = <<>> /\ sent = 0 /\ run = FALSE /\ fitsdata = None
    /\ elapsed = 0 /\ timeout = 0 /\ lastLog = NoLog /\ exc = NoExc
    /\ blob = NoEvent /\ arrived = <<>> /\ blobAt = [arr |-> -1, at |-> -1]
    /\ serial = <<>> /\ consumed = <<>> /\ calls = 0
    /\ threads = <<>>
    /\ op = NoOp /\ ret = RetNone
    /\ impl = "indicam"
    /\ debug \in BOOLEAN
    /\ frame_types = SbigTypes
    /\ cls = "none"
    /\ \E st \in {"On", "Off"} :
          dev = [DefaultDev EXCEPT !.CONNECT = st, !.BLOB_ENABLED = FALSE]

NextConnect ==
    \/ \E c \in Classes, o1 \in ConnOutcomes, o2 \in ConnOutcomes : Construct(c, o1, o2)
    \/ \E o \in ConnOutcomes : Connect(o)
    \/ \E o \in ConnOutcomes : Disconnect(o)
    \/ \E ok \in BOOLEAN : ReadTemperature(ok)

SpecConnect == InitConnect /\ [][NextConnect]_vars

\* return fitsdata (or the exception reaches the caller): the controller is
\* ready for the next call; the receive queue is an attribute of the
\* controller and keeps what it holds.  Arrival times count from the arming
\* of the current call, so what is queued now arrived before the next one.
Return ==
    /\ pc \in {"done", "raised"}
    /\ calls + 1 < MaxCalls
    /\ calls' = calls + 1
    /\ pc' = "idle"
    /\ arrived' = [i \in 1 .. Len(arrived) |-> -1]
    /\ blob' = NoEvent
    /\ blobAt' = [arr |-> -1, at |-> -1]
    /\ lastLog' = NoLog
    /\ UNCHANGED <<impl, debug, frame_types, exptime, exptype, writes, queue, sent,
                   run, fitsdata, elapsed, timeout, exc, serial, consumed, accessorVars>>

\* one controller used for several exposures
InitCalls ==
    /\ Init
    /\ impl = "indicam" /\ ~debug /\ frame_types = SbigTypes

NextCalls ==
    \/ Next
    \/ Return

SpecCalls == InitCalls /\ [][NextCalls]_vars

(* Two expose calls running at the same time on one controller.  Both     *)
(* threads have armed their exposure at time 0 and run the poll loop on    *)
(* the one receive queue; receive_event_queue.get() on a queue that is     *)
(* empty waits until an event is put on it.                                *)

ThreadIds == {1, 2}

\* what the poll loops and the clock leave alone
pollOther == <<impl, debug, frame_types, pc, exptime, exptype, writes, sent, run,
               fitsdata, timeout, lastLog, exc, blob, blobAt, calls, cls, dev, op, ret>>

\* while run:
PollWhileRun(i) ==
    /\ threads # <<>> /\ threads[i].pc = "while_run"
    /\ threads' = [threads EXCEPT ![i].pc = IF threads[i].run THEN "empty" ELSE "done"]
    /\ UNCHANGED <<queue, serial, arrived, consumed, elapsed, pollOther>>

\* while self.receive_event_queue.empty() is False:
PollEmpty(i) ==
    /\ threads # <<>> /\ threads[i].pc = "empty"
    /\ threads' = [threads EXCEPT ![i].pc = IF queue = <<>> THEN "check" ELSE "get"]
    /\ UNCHANGED <<queue, serial, arrived, consumed, elapsed, pollOther>>

\* vector = self.receive_event_queue.get() and the classification of vector;
\* the thread waits in get() while the queue is empty
PollGet(i) ==
    /\ threads # <<>> /\ threads[i].pc = "get"
    /\ queue # <<>>
    /\ LET vector == get(queue).item IN
       /\ queue' = get(queue).rest
       /\ serial' = get(serial).rest
       /\ arrived' = get(arrived).rest
       /\ consumed' = Append(consumed, get(serial).item)
       /\ threads' =
            [threads EXCEPT
               ![i].taken = Append(@, get(serial).item),
               ![i].run = IF vector.type = "BLOBVector" THEN FALSE ELSE @,
               ![i].fitsdata = IF vector.type = "BLOBVector"
                               THEN ImageOf(impl, vector, cls, dev) ELSE @,
               ![i].pc = IF vector.type = "BLOBVector" THEN "check" ELSE "empty"]
    /\ UNCHANGED <<elapsed, pollOther>>

\* if ((time.time() - t) > timeout): break   else: time.sleep(0.1)
PollDeadline(i) ==
    /\ threads # <<>> /\ threads[i].pc = "check"
    /\ threads' = [threads EXCEPT ![i].pc =
                      IF TimedOut(impl, elapsed, threads[i].timeout)
                      THEN "done" ELSE "sleep"]
    /\ UNCHANGED <<queue, serial, arrived, consumed, elapsed, pollOther>>

\* a thread that cannot go on until time passes or an event arrives
Stopped(i) ==
    \/ threads[i].pc \in {"sleep", "done"}
    \/ threads[i].pc = "get" /\ queue = <<>>

\* one poll interval passes: the sleeping threads wake up
Tick ==
    /\ threads # <<>>
    /\ \A i \in ThreadIds : Stopped(i)
    /\ \E i \in ThreadIds : threads[i].pc # "done"
    /\ \A i \in ThreadIds : elapsed <= threads[i].timeout + MaxOver
    /\ elapsed' = elapsed + Poll
    /\ threads' = [i \in ThreadIds |->
                     IF threads[i].pc = "sleep"
                     THEN [threads[i] EXCEPT !.pc = "while_run"] ELSE threads[i]]
    /\ UNCHANGED <<queue, serial, arrived, consumed, pollOther>>

\* the events delivered to the two calls
PollEvents == { BlobEvent(".fits", Absent, Absent), VectorEvent }

\* fitsdata = None; run = True; t = time.time(); timeout = exptime + 10.0
Armed(d) ==
    [pc |-> "while_run", run |-> TRUE, fitsdata |-> None,
     timeout |-> d + Grace, taken |-> <<>>]

InitTwo ==
    /\ pc = "idle" /\ exptime = 0 /\ exptype = "Light" /\ writes = <<>>
    /\ queue = <<>> /\ sent = 0 /\ run = FALSE /\ fitsdata = None
    /\ elapsed = 0 /\ timeout = 0 /\ lastLog = NoLog /\ exc = NoExc
    /\ blob = NoEvent /\ arrived = <<>> /\ blobAt = [arr |-> -1, at |-> -1]
    /\ serial = <<>> /\ consumed = <<>> /\ calls = 0
    /\ op = NoOp /\ ret = RetNone
    /\ impl = "indicam" /\ debug = FALSE /\ frame_types = SbigTypes
    /\ cls = "CCDCam" /\ dev = DefaultDev
    /\ \E d1 \in 0 .. MaxDur, d2 \in 0 .. MaxDur :
          threads = [i \in ThreadIds |-> Armed(IF i = 1 THEN d1 ELSE d2)]

NextTwo ==
    \/ \E i \in ThreadIds : PollWhileRun(i)
    \/ \E i \in ThreadIds : PollEmpty(i)
    \/ \E i \in ThreadIds : PollGet(i)
    \/ \E i \in ThreadIds : PollDeadline(i)
    \/ Tick
    \/ \E ev \in PollEvents : Deliver(ev)

SpecTwo == InitTwo /\ [][NextTwo]_vars

\* a bus that never delivers a binary payload
NextNoBlob ==
    \/ ExposeStep
    \/ \E ev \in OtherEvents : Deliver(ev)

\* the thread running expose keeps running
SpecNoBlob == Init /\ [][NextNoBlob]_vars /\ WF_vars(ExposeStep)

----------------------------------------------------------------------------
(* Claims *)

Waiting == pc \in {"while_run", "drain", "check", "sleep"}

\* the two writes of a call that passed validation
ExposeWrites ==
    << SwitchWrite("CCD_FRAME_TYPE", exptype),
       NumberWrite("CCD_EXPOSURE", "CCD_EXPOSURE_VALUE", exptime) >>

Rejected == pc = "raised" /\ exc = "Exception" /\ writes = <<>>

\* C1 as stated: every call with a duration outside (0, 3600], d = 0 included,
\* is rejected with a validation error and no write
C1_Original ==
    (pc # "idle" /\ (exptime <= 0 \/ exptime > MaxExptime)) => Rejected

\* C1 amended: every call with d < 0 or d > 3600 s is rejected with a validation
\* error and no write; d = 0 passes the duration check
C1_OutOfRangeRejected ==
    /\ (pc # "idle" /\ (exptime < 0 \/ exptime > MaxExptime)) => Rejected
    /\ (pc # "idle" /\ exptime = 0 /\ exptype \in frame_types /\ exptype \in SbigTypes)
          => ~Rejected

C1_Witness ==
    /\ Rejected
    /\ exptime > MaxExptime
    /\ exptype \in frame_types /\ exptype \in SbigTypes

\* C2 as stated: a frame type the device does not declare is rejected with a
\* validation error and no write; a declared one with a valid duration passes
C2_DeclaredTypesOnly ==
    /\ (pc # "idle" /\ exptype \notin frame_types) => Rejected
    /\ (pc # "idle" /\ exptype \in frame_types /\ exptime >= 0 /\ exptime <= MaxExptime)
          => ~Rejected

\* C3 (indicam, bus without binary payloads): a call that is armed returns None,
\* not before time.time() - t exceeds exptime + 10 s, at most one poll interval
\* after that, and it always returns
C3_TimesOutAfterDeadline ==
    /\ [](impl = "indicam" /\ pc = "done"
            => /\ fitsdata = None
               /\ elapsed > exptime + Grace
               /\ elapsed <= exptime + Grace + Poll)
    /\ [](impl = "indicam" /\ Waiting => elapsed <= exptime + Grace + Poll)
    /\ ((impl = "indicam" /\ Waiting) ~> (pc = "done"))

C3_Witness ==
    /\ impl = "indicam" /\ pc = "done" /\ fitsdata = None
    /\ exptime = 1 /\ elapsed = exptime + Grace + Poll
    /\ sent > 0

C5_MessagesLoggedNotFatal ==
    /\ [][(/\ impl = "indicam" /\ pc = "drain" /\ queue # <<>>
           /\ Head(queue).type = "message" /\ queue' = Tail(queue))
          => /\ lastLog' =
                  [level |-> IF "ERROR" \in {Head(queue).text[i] :
                                               i \in 1 .. Len(Head(queue).text)}
                             THEN "error" ELSE "info",
                   msg |-> Head(queue).text]
             /\ pc' = "drain" /\ run' = run /\ fitsdata' = fitsdata]_vars
    /\ [](impl = "indicam" /\ pc = "done"
            => blob # NoEvent \/ elapsed > exptime + Grace)

C5_Witness ==
    /\ impl = "indicam" /\ pc = "drain" /\ run
    /\ lastLog = [level |-> "error", msg |-> <<"ERROR", "busy">>]
    /\ elapsed <= exptime + Grace

\* C6 as stated (indicam): FILTER and CAMERA of the returned image keep the
\* value the decoded header already had
C6_Original ==
    (impl = "indicam" /\ blob.format = ".fits")
       => /\ (blob.FILTER # Absent => fitsdata.FILTER = blob.FILTER)
          /\ (blob.CAMERA # Absent => fitsdata.CAMERA = blob.CAMERA)

\* C6 amended (indicam): FILTER is written, with the selected filter, only when
\* the decoded header lacks it, and is otherwise left as decoded; CAMERA is
\* always set to the controller's camera name
C6_FilterIfAbsentCameraAlways ==
    (impl = "indicam" /\ blob.format = ".fits")
       => /\ (blob.FILTER # Absent => fitsdata.FILTER = blob.FILTER)
          /\ (blob.FILTER = Absent => fitsdata.FILTER = "R")
          /\ fitsdata.CAMERA = "MMTO Default"

C6_Witness ==
    /\ impl = "indicam" /\ pc = "done"
    /\ blob.FILTER = "devfilter" /\ fitsdata.FILTER = "devfilter"
    /\ blob.CAMERA = "devcam" /\ fitsdata.CAMERA = "MMTO Default"

\* C7 as stated: a call that passed validation submits exactly the two writes
\* CCD_FRAME_TYPE, CCD_EXPOSURE, in this order, before it dequeues anything,
\* and none after them
C7_ExactlyTwoWrites ==
    /\ (Waiting \/ pc = "done") => writes = ExposeWrites
    /\ (pc = "raised" /\ exc # "Exception") => writes = ExposeWrites

\* the values of the writes an operation submitted to one element
WritesTo(el) == SelectSeq(writes, LAMBDA w : w.element = el)

BinningSet ==
    /\ op.name = "set_binning"
    /\ DOMAIN op.req = {"X", "Y"}
    /\ op.req["X"] >= Num(1) /\ op.req["Y"] >= Num(1)

\* C8 as stated: on an echoing bus, setting binning {X: a, Y: b} with a, b >= 1
\* and then reading binning returns {X: a, Y: b}
C8_Original ==
    (BinningSet /\ ret.kind = "dict")
       => ret.val = [X |-> op.req["X"], Y |-> op.req["Y"]]

\* C8 amended: ... reading binning returns {X: trunc(a), Y: trunc(b)}, which is
\* the request when a and b are whole numbers
C8_RoundTripTruncates ==
    (BinningSet /\ ret.kind = "dict")
       => /\ ret.val = [X |-> (op.req["X"] \div Den) * Den,
                        Y |-> (op.req["Y"] \div Den) * Den]
          /\ (op.req["X"] % Den = 0 /\ op.req["Y"] % Den = 0
                => ret.val = [X |-> op.req["X"], Y |-> op.req["Y"]])

C8_Witness ==
    /\ BinningSet /\ ret.kind = "dict"
    /\ op.req["X"] = Num(2) /\ op.req["Y"] = Num(1)
    /\ ret.val = [X |-> Num(2), Y |-> Num(1)]

FrameSetX ==
    /\ op.name = "set_frame"
    /\ {"X", "width"} \subseteq DOMAIN op.req
    /\ op.req["X"] >= 0 /\ op.req["X"] <= dev.CCD_MAX_X
    /\ op.req["width"] >= Num(1)

FrameSetY ==
    /\ op.name = "set_frame"
    /\ {"Y", "height"} \subseteq DOMAIN op.req
    /\ op.req["Y"] >= 0 /\ op.req["Y"] <= dev.CCD_MAX_Y
    /\ op.req["height"] >= Num(1)

\* C9 as stated: for 0 <= X <= CCD_MAX_X and width >= 1 the setter submits the
\* WIDTH write min(width, CCD_MAX_X - X), and likewise HEIGHT
C9_Original ==
    /\ FrameSetX
          => LET w == WritesTo("WIDTH") IN
             Len(w) = 1 /\ w[1].value = Min(op.req["width"], dev.CCD_MAX_X - op.req["X"])
    /\ FrameSetY
          => LET h == WritesTo("HEIGHT") IN
             Len(h) = 1 /\ h[1].value = Min(op.req["height"], dev.CCD_MAX_Y - op.req["Y"])

\* the WIDTH (HEIGHT) writes the amended claim allows for extent e at offset o
ClampedWrite(el, e, o, max) ==
    LET m == IF e <= max - o THEN e ELSE max - o
    IN  IF m >= Num(1)
        THEN << [vector |-> "CCD_FRAME", element |-> el, value |-> (m \div Den) * Den] >>
        ELSE <<>>

\* C9 amended: for 0 <= X <= CCD_MAX_X and width >= 1 the setter submits a WIDTH
\* write exactly when min(width, CCD_MAX_X - X) >= 1 (so none at X = CCD_MAX_X),
\* and its value is trunc(min(width, CCD_MAX_X - X)); likewise HEIGHT; no
\* WIDTH write exceeds CCD_MAX_X - X
C9_ClampedWhenSubmitted ==
    /\ FrameSetX
          => /\ WritesTo("WIDTH")
                  = ClampedWrite("WIDTH", op.req["width"], op.req["X"], dev.CCD_MAX_X)
             /\ \A i \in 1 .. Len(WritesTo("WIDTH")) :
                   WritesTo("WIDTH")[i].value <= dev.CCD_MAX_X - op.req["X"]
    /\ FrameSetY
          => /\ WritesTo("HEIGHT")
                  = ClampedWrite("HEIGHT", op.req["height"], op.req["Y"], dev.CCD_MAX_Y)
             /\ \A i \in 1 .. Len(WritesTo("HEIGHT")) :
                   WritesTo("HEIGHT")[i].value <= dev.CCD_MAX_Y - op.req["Y"]

C9_Witness ==
    /\ FrameSetX
    /\ op.req["X"] = 0 /\ op.req["width"] = Num(MaxPix + 1)
    /\ WritesTo("WIDTH") = << NumberWrite("CCD_FRAME", "WIDTH", Num(MaxPix)) >>

\* the accessors of the capabilities each camera model marks as unsupported
Unsupported(c) ==
    CASE c = "RATCam"   -> { <<"temperature", "get">>, <<"temperature", "set">>,
                             <<"cooling_power", "get">>, <<"cooler", "get">>,
                             <<"fan", "get">>, <<"filters", "get">>,
                             <<"filter", "get">>, <<"filter", "set">>,
                             <<"cooling_on", "call">>, <<"cooling_off", "call">> }
      [] c = "ASICam"   -> { <<"filters", "get">>, <<"filter", "get">>, <<"filter", "set">> }
      [] c = "SimCam"   -> { <<"cooling_power", "get">> }
      [] c = "F9WFSCam" -> { <<"filters", "get">>, <<"filter", "get">>, <<"filter", "set">>,
                             <<"fan_on", "call">>, <<"fan_off", "call">> }
      [] OTHER          -> {}

\* None, "N/A" or ["N/A"]
NotApplicable == { RetNone, RetStr("N/A"), RetList(<<"N/A">>) }

\* C10 as stated: every accessor, getter or setter, of a capability a camera
\* model marks as unsupported submits no write and returns the not-applicable
\* sentinel instead of failing
C10_UnsupportedIsInert ==
    (op.name = "access" /\ op.req \in Unsupported(cls))
       => writes = <<>> /\ exc = NoExc /\ ret \in NotApplicable

\* the numbers 1 .. n in order
Upto(n) == [i \in 1 .. n |-> i]

\* C11: during expose the events leave the FIFO in arrival order and each at
\* most once: the events taken so far followed by those still queued are the
\* delivered events in arrival order, the queue only loses its head (to
\* expose) or gains a new tail (from the bus), and the event expose
\* classifies (as the binary payload, or as the logged message) is that head
C11_FifoOrderConsumedOnce ==
    /\ [](/\ Len(serial) = Len(queue)
          /\ consumed \o serial = Upto(sent))
    /\ [][ \/ queue' = queue /\ consumed' = consumed
           \/ /\ Len(queue') = Len(queue) + 1
              /\ SubSeq(queue', 1, Len(queue)) = queue
              /\ sent' = sent + 1 /\ consumed' = consumed
           \/ /\ queue # <<>> /\ queue' = Tail(queue)
              /\ consumed' = Append(consumed, Head(serial))
              /\ Head(queue).type = "BLOBVector" => blob' = Head(queue)
              /\ (impl = "indicam" /\ Head(queue).type = "message")
                    => lastLog'.msg = Head(queue).text ]_vars

C11_Witness ==
    /\ consumed = <<1, 2>>
    /\ pc = "drain"
    /\ lastLog.level \in {"error", "info"}

\* C12 as stated: when a write of connect, disconnect or expose is not
\* confirmed, the operation ends with the explicit timeout outcome and with no
\* other error
C12_UnconfirmedWriteReportsTimeout ==
    /\ (op.name \in {"connect", "disconnect"} /\ op.req.vec = "None")
          => exc = "TimeoutError"
    /\ pc = "raised" => exc \in {"Exception", "TimeoutError"}

\* the last call was a connect() or disconnect() whose write the bus applied
\* and confirmed
AppliedCall(o) == o.name \in {"connect", "disconnect"} /\ o.req.vec = "vector"

\* C13: on a bus that applies writes, connected is True exactly when the last
\* call was connect(); the call submitted exactly one CONNECTION write and
\* returned a vector; a read after a connect() gives the value of the device
C13_ConnectedFollowsLastCall ==
    /\ AppliedCall(LastCall) => (connected(dev) <=> LastCall.name = "connect")
    /\ AppliedCall(op) =>
          /\ Len(writes) = 1 /\ writes[1].vector = "CONNECTION"
          /\ writes[1].element = (IF op.name = "connect" THEN "Connect" ELSE "Disconnect")
          /\ ret = RetStr("vector") /\ exc = NoExc
    /\ (op.name = "temperature" /\ AppliedCall(op.req) /\ op.req.name = "connect"
          /\ Lookup(cls, "temperature", "get") = "base")
          => ret = RetNum(dev.CCD_TEMPERATURE_VALUE) /\ exc = NoExc

C13_Witness ==
    /\ op.name = "temperature" /\ op.req.name = "connect"
    /\ op.req.req = [vec |-> "vector", prev |-> "disconnect"]
    /\ cls = "CCDCam" /\ connected(dev)
    /\ ret = RetNum(Num(20))

\* C14 as stated: when construction has finished binary delivery is enabled
\* and connected is True, and the constructor submitted a CONNECTION write if
\* and only if the device was not reported connected before
C14_ConstructedEnabledAndConnected ==
    /\ [](cls # "none" => dev.BLOB_ENABLED)
    /\ [](op.name = "__init__" => connected(dev))
    /\ [][ (cls = "none" /\ cls' # "none")
             => ((\E i \in 1 .. Len(writes') : writes'[i].vector = "CONNECTION")
                    <=> ~connected(dev)) ]_vars

\* the request asks for position i (0-indexed) of the filter list, by index
\* or by the name held there
AsksFor(i) ==
    /\ op.name = "set_filter"
    /\ i >= 0 /\ i < Len(filters(dev))
    /\ \/ op.req.int /\ op.req.i = i
       \/ ~op.req.int /\ op.req.s = filters(dev)[i + 1]

\* the slot numbers written by the last call
SlotsWritten == [k \in 1 .. Len(writes) |-> writes[k].value]

\* C15 as stated: setting filter to i or to filters[i] makes the getter return
\* filters[i], and the slot written is i + 1
C15_Original ==
    \A i \in 0 .. MaxFilters :
       AsksFor(i) =>
          /\ SlotsWritten = << Num(i + 1) >>
          /\ ret.kind = "str" => ret.val = filters(dev)[i + 1]

\* C15 amended: ... makes the getter return filters[i]; the slot written is
\* i + 1 when i is given, and j + 1 for the first position j holding the name
\* when a name is given (j = i when the names are distinct)
C15_FilterRoundTripFirstMatch ==
    \A i \in 0 .. MaxFilters :
       AsksFor(i) =>
          /\ ret.kind = "str" => ret.val = filters(dev)[i + 1]
          /\ op.req.int => SlotsWritten = << Num(i + 1) >>
          /\ ~op.req.int =>
                \E j \in 0 .. i :
                   /\ filters(dev)[j + 1] = op.req.s
                   /\ \A k \in 0 .. j - 1 : filters(dev)[k + 1] # op.req.s
                   /\ SlotsWritten = << Num(j + 1) >>
                   /\ ((\A k \in 0 .. i - 1 : filters(dev)[k + 1] # op.req.s) => j = i)

C15_Witness ==
    /\ filters(dev) = <<"R", "V">>
    /\ AsksFor(1) /\ ~op.req.int
    /\ SlotsWritten = << Num(2) >>
    /\ ret = RetStr("V")

\* a full frame request inside the sensor
FrameInside ==
    /\ op.name = "set_frame"
    /\ DOMAIN op.req = {"X", "Y", "width", "height"}
    /\ op.req["X"] >= 0 /\ op.req["Y"] >= 0
    /\ op.req["width"] >= Num(1) /\ op.req["width"] <= dev.CCD_MAX_X - op.req["X"]
    /\ op.req["height"] >= Num(1) /\ op.req["height"] <= dev.CCD_MAX_Y - op.req["Y"]

\* C16 as stated: for a request inside the sensor, setting frame and then
\* reading frame returns the same four values
C16_Original ==
    (FrameInside /\ ret.kind = "dict") => ret.val = op.req

\* a number with its fractional part dropped
Whole(v) == (v \div Den) * Den

\* C16 amended: setting frame and then reading frame returns the four values
\* with their fractional parts dropped, which are the request when its values
\* are whole numbers
C16_FrameRoundTripTruncates ==
    (FrameInside /\ ret.kind = "dict")
       => /\ ret.val = [X |-> Whole(op.req["X"]), Y |-> Whole(op.req["Y"]),
                        width |-> Whole(op.req["width"]),
                        height |-> Whole(op.req["height"])]
          /\ (\A k \in DOMAIN op.req : op.req[k] % Den = 0) => ret.val = op.req

C16_Witness ==
    /\ FrameInside /\ ret.kind = "dict"
    /\ op.req = [X |-> Num(1), Y |-> Num(1), width |-> Num(1), height |-> Num(1)]
    /\ ret.val = op.req

\* C17 as stated (sbigcam, bus without binary payloads): a call that is armed
\* does not wait beyond duration + grace (to within one poll interval) and
\* returns, without an image
C17_SbigExposeTimesOut ==
    /\ [](impl = "sbigcam" /\ Waiting => elapsed <= exptime + Grace + Poll)
    /\ [](impl = "sbigcam" /\ pc = "done" => fitsdata = None)
    /\ ((impl = "sbigcam" /\ Waiting) ~> (pc = "done"))

\* C18 as stated (indicam): the timeout is reported only when no image-format
\* binary event was taken from the FIFO, and a call that took one returns the
\* image whether or not the deadline had elapsed
C18_TimedOutOnlyWithoutImage ==
    /\ (impl = "indicam" /\ lastLog.level = "warning") => blob.format # ".fits"
    /\ (impl = "indicam" /\ pc = "done" /\ blob.format = ".fits") => fitsdata.some

\* C19 as stated (indicam): a call that returns before the elapsed time
\* exceeds duration + grace returns a decoded image
C19_NoImageOnlyAfterDeadline ==
    (impl = "indicam" /\ pc = "done" /\ elapsed <= exptime + Grace) => fitsdata.some

\* C20 as stated: the image a call returns was decoded from a binary event
\* that was enqueued after the call submitted its CCD_EXPOSURE write
C20_ImageFromOwnExposure ==
    (pc = "done" /\ fitsdata.some) => blobAt.arr >= 0

\* the numbers lo .. hi in order
FromTo(lo, hi) == [i \in 1 .. hi - lo + 1 |-> lo + i - 1]

InRange(k, lo, max) ==
    k \in DOMAIN op.req /\ op.req[k] >= lo /\ op.req[k] <= max

\* C22 as stated: the frame setter does not raise, submits no write for a field
\* outside [0, max], submits every in-range field, and submits a valid width
\* (height) also when X (Y) is absent or out of range
C22_InRangeFieldsSubmitted ==
    op.name = "set_frame" =>
       /\ exc = NoExc
       /\ Len(WritesTo("X")) = (IF InRange("X", 0, dev.CCD_MAX_X) THEN 1 ELSE 0)
       /\ Len(WritesTo("Y")) = (IF InRange("Y", 0, dev.CCD_MAX_Y) THEN 1 ELSE 0)
       /\ (InRange("width", Num(1), dev.CCD_MAX_X) /\ ~InRange("X", 0, dev.CCD_MAX_X))
             => Len(WritesTo("WIDTH")) = 1
       /\ (InRange("height", Num(1), dev.CCD_MAX_Y) /\ ~InRange("Y", 0, dev.CCD_MAX_Y))
             => Len(WritesTo("HEIGHT")) = 1

\* C23 as stated: on a bus that applies every write, the device frame stays
\* inside the sensor through any sequence of frame-setter calls
C23_FrameStaysInsideSensor ==
    /\ dev.X + dev.WIDTH <= dev.CCD_MAX_X
    /\ dev.Y + dev.HEIGHT <= dev.CCD_MAX_Y

\* a filter request that names no position of the list
NoSuchFilter(f, names) ==
    \/ f.int /\ (f.i < 0 \/ f.i >= Len(names))
    \/ ~f.int /\ \A k \in 1 .. Len(names) : names[k] # f.s

\* the slot value of the device is one of 1 .. n
SlotInList == \E k \in 1 .. Len(filters(dev)) : dev.FILTER_SLOT_VALUE = Num(k)

\* C24: setting filter to an index outside [0, n) or to a name that is not in
\* the list submits no write and leaves the device as it was, and the getter
\* returns None whenever the slot value of the device is outside 1 .. n (and a
\* name of the list otherwise)
C24_InvalidFilterIgnored ==
    /\ [][ (op'.name = "set_filter" /\ op.name # "set_filter"
              /\ NoSuchFilter(op'.req, filters(dev)))
             => writes' = <<>> /\ dev' = dev /\ exc' = NoExc ]_vars
    /\ [](ret.kind = "str" => (ret.val = "None" <=> ~SlotInList))

C24_Witness ==
    /\ op.name = "set_filter" /\ ~op.req.int /\ op.req.s = "B"
    /\ writes = <<>>
    /\ dev.FILTER_SLOT_VALUE = Num(Len(filters(dev)) + 1)
    /\ ret = RetStr("None")

\* the values written to an element by the last call
Written(el) == [k \in 1 .. Len(WritesTo(el)) |-> WritesTo(el)[k].value]

\* q is (CCD_MAX_X - CCD_MAX_Y) / 6 truncated toward zero
IsWfsOffset(q) ==
    LET diff == dev.CCD_MAX_X - dev.CCD_MAX_Y IN
    IF diff >= 0
    THEN q >= 0 /\ 6 * Num(q) <= diff /\ diff < 6 * Num(q + 1)
    ELSE q <= 0 /\ 6 * Num(q) >= diff /\ diff > 6 * Num(q - 1)

\* the two binning writes come first and ask for 3 x 3
WfsBinningFirst ==
    /\ Len(writes) >= 2
    /\ writes[1] = NumberWrite("CCD_BINNING", "HOR_BIN", Num(3))
    /\ writes[2] = NumberWrite("CCD_BINNING", "VER_BIN", Num(3))
    /\ \A k \in 3 .. Len(writes) : writes[k].vector = "CCD_FRAME"

\* the square sub-frame of the claim
WfsSquare ==
    /\ \E q \in -MaxSensor .. MaxSensor : IsWfsOffset(q) /\ Written("X") = << Num(q) >>
    /\ Written("Y") = << 0 >>
    /\ Written("WIDTH") = << dev.CCD_MAX_Y >>
    /\ Written("HEIGHT") = << dev.CCD_MAX_Y >>

C26_ConcurrentCallsReturnInTime ==
    \A i \in ThreadIds :
       /\ threads[i].pc # "done" => elapsed <= threads[i].timeout + Poll
       /\ \A j \in ThreadIds \ {i} :
             \A a \in 1 .. Len(threads[i].taken), b \in 1 .. Len(threads[j].taken) :
                threads[i].taken[a] # threads[j].taken[b]

====
